---- MODULE Spec2Model ----
(***************************************************************************)
(* Model of the legal-rag request pipeline: the HTTP handlers of           *)
(* src/src/app_features.py (research, judgment, summarize) and the         *)
(* citation verifier of src/src/verify_and_log.py.                         *)
(*                                                                         *)
(* A text is a sequence of one-character strings.  Two specifications      *)
(* share the variables:                                                    *)
(*   Spec        the request handlers, one request at a time;              *)
(*   SpecVerify  verify_bracket_citations applied to every text over       *)
(*               Alphabet of length <= MaxTextLen and every N <= MaxN.     *)
(***************************************************************************)
EXTENDS Integers, Sequences, FiniteSets, TLC

(* ------------------------------ bounds --------------------------------- *)
MaxTextLen == 6
MaxN == 2
Alphabet == {"[", "]", "0", "1", "2", "a"}

(* ------------------- verify_and_log.py: the verifier ------------------- *)
Digits == {"0", "1", "2", "3", "4", "5", "6", "7", "8", "9"}

DigitVal(c) ==
    CASE c = "0" -> 0 [] c = "1" -> 1 [] c = "2" -> 2 [] c = "3" -> 3
      [] c = "4" -> 4 [] c = "5" -> 5 [] c = "6" -> 6 [] c = "7" -> 7
      [] c = "8" -> 8 [] c = "9" -> 9

\* int(citation): decimal value of a non-empty digit string, leading zeros allowed
RECURSIVE int(_)
int(ds) ==
    IF Len(ds) = 0 THEN 0
    ELSE 10 * int(SubSeq(ds, 1, Len(ds) - 1)) + DigitVal(ds[Len(ds)])

\* \d+ is greedy: the first index >= i of text that does not hold a digit
RECURSIVE DigitsEnd(_, _)
DigitsEnd(text, i) ==
    IF i <= Len(text) /\ text[i] \in Digits THEN DigitsEnd(text, i + 1) ELSE i

\* a pattern that forgets the closing bracket: r'\[(\d+)'
RECURSIVE re_findall_unclosed(_, _)
re_findall_unclosed(text, pos) ==
    IF pos > Len(text) THEN <<>>
    ELSE IF text[pos] = "["
         THEN LET e == DigitsEnd(text, pos + 1) IN
              IF e > pos + 1
              THEN <<SubSeq(text, pos + 1, e - 1)>> \o re_findall_unclosed(text, e)
              ELSE re_findall_unclosed(text, pos + 1)
         ELSE re_findall_unclosed(text, pos + 1)

\* re.findall(r'\[(\d+)\]', text) scanning from index pos: the captured digit
\* strings of the leftmost non-overlapping matches, in text order
RECURSIVE re_findall(_, _)
re_findall(text, pos) ==
    IF pos > Len(text) THEN <<>>
    ELSE IF text[pos] = "["
         THEN LET e == DigitsEnd(text, pos + 1) IN
              IF e > pos + 1 /\ e <= Len(text) /\ text[e] = "]"
              THEN <<SubSeq(text, pos + 1, e - 1)>> \o re_findall(text, e + 1)
              ELSE re_findall(text, pos + 1)
         ELSE re_findall(text, pos + 1)

Range(s) == {s[i] : i \in 1..Len(s)}

InRange_zero(num, num_retrieved) == 0 <= num /\ num <= num_retrieved
\* 1 <= num <= num_retrieved
InRange(num, num_retrieved) == 1 <= num /\ num <= num_retrieved

AppendUnique_always(list, num) == Append(list, num)
\* if num not in list: list.append(num)
AppendUnique(list, num) == IF num \in Range(list) THEN list ELSE Append(list, num)

sorted_asis(list) == list
\* sorted(list) on a list of integers
sorted(list) == SortSeq(list, <)

\* the for loop over the citations found: acc = [valid, invalid] so far
RECURSIVE Classify(_, _, _)
Classify(citations, num_retrieved, acc) ==
    IF citations = <<>> THEN acc
    ELSE LET num == int(Head(citations)) IN
         Classify(Tail(citations), num_retrieved,
                  IF InRange(num, num_retrieved)
                  THEN [acc EXCEPT !.valid = AppendUnique(acc.valid, num)]
                  ELSE [acc EXCEPT !.invalid = AppendUnique(acc.invalid, num)])

verify_bracket_citations(text, num_retrieved) ==
    LET citations == re_findall(text, 1)
        lists == Classify(citations, num_retrieved, [valid |-> <<>>, invalid |-> <<>>])
    IN  [valid |-> sorted(lists.valid), invalid |-> sorted(lists.invalid)]

(* ------------------- handler inputs and collaborators ------------------ *)
MaxPassages == 2
MaxRequests == 2
MaxClock == 1

DEFAULT_TOP_K == 6
SUMMARIZE_TOP_K == 3
\* temperatures in tenths: 0.0 and 0.1
RESEARCH_TEMPERATURE == 0
JUDGMENT_TEMPERATURE == 1
SUMMARIZE_TEMPERATURE == 0

\* Optional[T] is a sequence of length <= 1: <<>> is None, <<v>> is the value v
None == <<>>
Some(v) == <<v>>
\* Python truthiness of an Optional[int] and of an Optional[str]
TruthyInt(opt) == opt # None /\ opt[1] # 0
TruthyStr(opt) == opt # None /\ opt[1] # <<>>

TopKInputs == {None, Some(1)}
TemperatureInputs == {None, Some(0), Some(5)}
ModeInputs == {"hypothetical", "reference", "invalid_mode"}
QueryInputs == {None, Some(<<>>), Some(<<"q">>)}
CaseTextInputs == {None, Some(<<>>), Some(<<"c">>)}

\* what the vector store can answer: passages in rank order, no passage twice
PassageIds == 1..MaxPassages
Rankings ==
    {r \in UNION {[1..n -> PassageIds] : n \in 0..MaxPassages} :
        \A i, j \in 1..Len(r) : i # j => r[i] # r[j]}

\* what the generation backend can answer
GenTexts ==
    { <<"a">>,
      <<"[", "1", "]">>,
      <<"[", "2", "]", "[", "1", "]">>,
      <<"[", "1", "]", "[", "5", "]">> }

Min(a, b) == IF a <= b THEN a ELSE b

\* a filters dict is a set of entries [k, v], one per key, v an Optional value
FilterKeys == {"court", "year"}
FilterValues == {None, Some("a"), Some("b")}
FilterDicts ==
    {d \in SUBSET [k : FilterKeys, v : FilterValues] :
        \A e, f \in d : e.k = f.k => e = f}
FilterInputs == {None} \cup {Some(d) : d \in FilterDicts}

where_clause_asis(filters) == filters
\* where = None; if filters: where = {k: v for k, v in filters.items() if v is not None}
where_clause(filters) ==
    IF filters # None /\ filters[1] # {}
    THEN Some({e \in filters[1] : e.v # None})
    ELSE None

\* if top_k is None: top_k = Config.DEFAULT_TOP_K
n_results(k) == IF k = None THEN DEFAULT_TOP_K ELSE k[1]

\* collection.query(n_results=top_k): the top_k best of the ranking
retrieve(ranking, top_k) == SubSeq(ranking, 1, Min(top_k, Len(ranking)))

(* ---------------------- llm_client.py: generate ------------------------ *)
RETRY_COUNT == 3

\* the characters "[ERROR: "
ErrorPrefix == <<"[", "E", "R", "R", "O", "R", ":", " ">>

DigitChar(d) ==
    CASE d = 0 -> "0" [] d = 1 -> "1" [] d = 2 -> "2" [] d = 3 -> "3" [] d = 4 -> "4"
      [] d = 5 -> "5" [] d = 6 -> "6" [] d = 7 -> "7" [] d = 8 -> "8" [] d = 9 -> "9"

\* str(n) of a non-negative integer
RECURSIVE str_int(_)
str_int(n) == IF n < 10 THEN <<DigitChar(n)>> ELSE str_int(n \div 10) \o <<DigitChar(n % 10)>>

\* what one requests.post can end in: status 200 with a generated text, another
\* status with a response body, an exception with a message, or status 200
\* with a body on which response.json() raises, with the message of that
TransportOutcomes ==
    {[kind |-> "ok", code |-> 200, text |-> t] : t \in GenTexts}
    \cup {[kind |-> "status", code |-> 500, text |-> <<"[", "9", "]">>],
          [kind |-> "exception", code |-> 0, text |-> <<"t">>],
          [kind |-> "json_error", code |-> 200, text |-> <<"j">>]}

\* f"API error {response.status_code}: {response.text}" or str(e)
error_msg(o) ==
    IF o.kind = "status"
    THEN <<"A", "P", "I", " ", "e", "r", "r", "o", "r", " ">> \o str_int(o.code) \o <<":", " ">> \o o.text
    ELSE o.text

\* f"[ERROR: {error_msg}]"
sentinel(msg) == ErrorPrefix \o msg \o <<"]">>

ALL_RETRIES_FAILED == ErrorPrefix \o <<"A", "l", "l", " ", "r", "e", "t", "r", "y", " ", "a", "t", "t", "e", "m", "p", "t", "s", " ", "f", "a", "i", "l", "e", "d">> \o <<"]">>

IsSentinel(text) ==
    /\ Len(text) > Len(ErrorPrefix)
    /\ SubSeq(text, 1, Len(ErrorPrefix)) = ErrorPrefix
    /\ text[Len(text)] = "]"

Pow2_one(n) == 1
\* 2 ** attempt
Pow2(n) == IF n = 0 THEN 1 ELSE IF n = 1 THEN 2 ELSE IF n = 2 THEN 4 ELSE 2 ^ n

LoopStep(done, raised, text, sleep) ==
    [done |-> done, raised |-> raised, text |-> text, sleep |-> sleep]

generate_attempt_raises(o, attempt, retry_count) ==
    IF o.kind = "ok"
    THEN LoopStep(TRUE, FALSE, o.text, 0)
    ELSE IF attempt < retry_count - 1
         THEN LoopStep(FALSE, FALSE, <<>>, Pow2(attempt))
         ELSE LoopStep(TRUE, TRUE, <<>>, 0)
\* one pass of the loop body of generate, attempt counted from 0, when the
\* transport ends in o: return the text, or sleep 2 ** attempt and go on, or
\* return the sentinel after the last attempt
generate_attempt(o, attempt, retry_count) ==
    IF o.kind = "ok"
    THEN LoopStep(TRUE, FALSE, o.text, 0)
    ELSE IF attempt < retry_count - 1
         THEN LoopStep(FALSE, FALSE, <<>>, Pow2(attempt))
         ELSE LoopStep(TRUE, FALSE, sentinel(error_msg(o)), 0)

(* ------------------ prompt_templates.py (by segments) ------------------ *)
Seg(kind, num, text) == [kind |-> kind, num |-> num, text |-> text]

SortedById(retrieved) == SortSeq(retrieved, <)
format_retrieved_passages_sorted(retrieved) ==
    [i \in 1..Len(retrieved) |-> Seg("passage", i, <<SortedById(retrieved)[i]>>)]
\* one numbered passage per retrieved document, numbered by position
format_retrieved_passages(retrieved) ==
    [i \in 1..Len(retrieved) |-> Seg("passage", i, <<retrieved[i]>>)]

build_research_prompt(query, retrieved) ==
    <<Seg("research_instructions", 0, <<>>)>>
    \o format_retrieved_passages(retrieved)
    \o <<Seg("user_query", 0, query), Seg("range_1_through", Len(retrieved), <<>>)>>

build_judgment_prompt(facts, mode, retrieved) ==
    <<Seg("judgment_instructions", 0,
          IF mode = "hypothetical" THEN <<"HYPOTHETICAL ANALYSIS">>
                                   ELSE <<"REFERENCE ANALYSIS">>)>>
    \o format_retrieved_passages(retrieved)
    \o <<Seg("case_facts", 0, facts), Seg("range_1_through", Len(retrieved), <<>>)>>

build_summarize_prompt_passages(query, retrieved, case_text) ==
    <<Seg("summarize_instructions", 0, <<>>)>> \o format_retrieved_passages(retrieved)
\* if case_text: the case text block, else: the retrieved passages
build_summarize_prompt(query, retrieved, case_text) ==
    <<Seg("summarize_instructions", 0, <<>>)>>
    \o (IF TruthyStr(case_text)
        THEN <<Seg("case_text", 0, case_text[1])>>
        ELSE format_retrieved_passages(retrieved))

(* ----------------- verify_and_log.py: retry and logging ---------------- *)
should_retry_generation_never(verification) == FALSE
\* len(verification.get("invalid", [])) > 0
should_retry_generation(verification) == Len(verification.invalid) > 0

\* the three fixed parts of the retry instruction
RetryText1 ==
    <<"\n", "C", "R", "I", "T", "I", "C", "A", "L", " ", "C", "O", "R", "R", "E", "C",
      "T", "I", "O", "N", " ", "R", "E", "Q", "U", "I", "R", "E", "D", ":", "\n", "Y",
      "o", "u", "r", " ", "p", "r", "e", "v", "i", "o", "u", "s", " ", "r", "e", "s",
      "p", "o", "n", "s", "e", " ", "c", "o", "n", "t", "a", "i", "n", "e", "d", " ",
      "i", "n", "v", "a", "l", "i", "d", " ", "c", "i", "t", "a", "t", "i", "o", "n",
      "s", ":", " ">>
RetryText2 ==
    <<"\n", "Y", "o", "u", " ", "M", "U", "S", "T", " ", "u", "s", "e", " ", "O", "N",
      "L", "Y", " ", "b", "r", "a", "c", "k", "e", "t", " ", "n", "u", "m", "b", "e",
      "r", "s", " ", "f", "r", "o", "m", " ", "[", "1", "]", " ", "t", "o", " ", "[">>
RetryText3 ==
    <<"]", ".", "\n", "D", "o", " ", "N", "O", "T", " ", "u", "s", "e", " ", "a", "n",
      "y", " ", "o", "t", "h", "e", "r", " ", "n", "u", "m", "b", "e", "r", "s", " ",
      "i", "n", " ", "b", "r", "a", "c", "k", "e", "t", " ", "c", "i", "t", "a", "t",
      "i", "o", "n", "s", ".", "\n", "\n">>

\* ", ".join of the str() of the numbers
RECURSIVE join_ints(_)
join_ints(list) ==
    IF list = <<>> THEN <<>>
    ELSE IF Len(list) = 1 THEN str_int(list[1])
    ELSE str_int(Head(list)) \o <<",", " ">> \o join_ints(Tail(list))

\* f"{invalid_citations}": the repr of a list of integers
list_repr(list) == <<"[">> \o join_ints(list) \o <<"]">>

retry_instruction(num_retrieved, invalid_citations) ==
    RetryText1 \o list_repr(invalid_citations) \o RetryText2 \o str_int(num_retrieved)
    \o RetryText3

build_retry_prompt_appended(original_prompt, num_retrieved, invalid_citations) ==
    original_prompt
    \o <<Seg("correction", 0, retry_instruction(num_retrieved, invalid_citations))>>
\* retry_instruction + original_prompt: the instruction is one more segment in
\* front of the segments of the original prompt
build_retry_prompt(original_prompt, num_retrieved, invalid_citations) ==
    <<Seg("correction", 0, retry_instruction(num_retrieved, invalid_citations))>>
    \o original_prompt

truncate_none(text, max_len) == text
\* text[:max_len] + "..." if len(text) > max_len else text
truncate(text, max_len) ==
    IF Len(text) > max_len THEN SubSeq(text, 1, max_len) \o <<".", ".", ".">> ELSE text

USER_INPUT_CAP == 1000
PROMPT_CAP == 2000
RESPONSE_CAP == 2000

create_log_entry(mode, user_input, retrieved, prompt, llm_response, verification, temperature) ==
    [ mode |-> mode,
      user_input |-> truncate(user_input, USER_INPUT_CAP),
      retrieved_count |-> Len(retrieved),
      retrieved_metadata |-> retrieved,
      prompt |-> truncate(prompt, PROMPT_CAP),
      temperature |-> temperature,
      llm_response |-> truncate(llm_response, RESPONSE_CAP),
      verification |-> verification,
      full_response_length |-> Len(llm_response) ]

(* ------------------------------ state ---------------------------------- *)
VARIABLES
    apiKeySet,      \* Config.GOOGLE_API_KEY and GOOGLE_AI_ENDPOINT are both non-empty
    collectionOK,   \* the ChromaDB collection can be loaded
    retrieverInst,  \* retriever._retriever_instance is not None
    llmInst,        \* llm_client._llm_client_instance is not None
    pc,             \* position of the handler of the request in progress
    req,            \* the request: endpoint and its fields
    top_k,          \* handler local
    temperature,    \* handler local
    retrieved,      \* handler local: the retrieved passages, in rank order
    prompt,         \* handler local
    answer,         \* handler local
    verification,   \* handler local: <<>> before any verification, else <<dict>>
    exc,            \* the exception raised inside the try block, if any
    response,       \* what the HTTP caller receives
    retrCalls,      \* retriever.retrieve calls of this request
    gens,           \* llm_client.generate calls of this request: prompt, temperature, text
    verifs,         \* results of the verify_bracket_citations calls of this request
    logFiles,       \* entries written by write_log_file in this request
    outcomes,       \* of the finished requests: the exception raised and the status sent
    nreq,           \* requests received so far
    call,           \* the llm_client.generate call in progress: its loop variables
    clock,          \* the last time read from datetime.now(), in seconds
    disk,           \* the files of Config.LOGS_DIR: name and the request that wrote it
    nwrites,        \* write_log_file calls so far
    vtext, vnum, vresult,  \* SpecVerify: text and N under test, and the result
    vretry,                \* SpecVerify: the retry prompt built from the result
    logIn, logOut,         \* SpecLog: the texts given to create_log_entry, and the entry
    posts,                 \* SpecGenerate: how each requests.post of the call ended
    filtIn, filtOut,       \* SpecRetrieve: the arguments of retrieve, and its query
    ctext, csize, coverlap, cpages,  \* SpecChunk: the arguments of chunk_text_with_metadata
    cstart, cindex, cchunks,         \* SpecChunk: its locals start, chunk_index, chunks
    cpc                              \* SpecChunk: not called, in the loop, or returned

cfgVars == <<apiKeySet, collectionOK>>
instVars == <<retrieverInst, llmInst>>
localVars == <<top_k, temperature, retrieved, prompt, answer, verification>>
callVars == <<retrCalls, gens, verifs, logFiles>>
envVars == <<clock, disk, nwrites>>
chunkVars == <<ctext, csize, coverlap, cpages, cstart, cindex, cchunks, cpc>>
unitVars == <<vtext, vnum, vresult, vretry, logIn, logOut, posts, filtIn, filtOut, chunkVars>>
vars == <<apiKeySet, collectionOK, retrieverInst, llmInst, pc, req, top_k, temperature,
          retrieved, prompt, answer, verification, exc, response, retrCalls, gens,
          verifs, logFiles, outcomes, nreq, call, clock, disk, nwrites, vtext, vnum, vresult,
          vretry, logIn, logOut, posts, filtIn, filtOut, ctext, csize, coverlap, cpages,
          cstart, cindex, cchunks, cpc>>

NoException == [type |-> "none", status_code |-> 0]
HTTPException(status_code) == [type |-> "HTTPException", status_code |-> status_code]
ValueError == [type |-> "ValueError", status_code |-> 0]
CollectionError == [type |-> "CollectionError", status_code |-> 0]
StoreError == [type |-> "StoreError", status_code |-> 0]

TransportError == [type |-> "TransportError", status_code |-> 0]

NoCall == [active |-> FALSE, prompt |-> <<>>, temperature |-> 0, attempt |-> 0,
           sleeps |-> <<>>]

NoRequest == [endpoint |-> "none", text |-> None, mode |-> "none", case_text |-> None,
              top_k |-> None, temperature |-> None]
NoResponse == [status_code |-> 0, mode |-> "none", answer |-> <<>>, retrieved |-> <<>>,
               verification |-> <<>>, logfile |-> <<>>, disclaimer |-> "none"]

\* the handler's state before a request arrives, on a log directory without files
HandlerIdle ==
    /\ pc = "idle"
    /\ req = NoRequest
    /\ top_k = 0
    /\ temperature = 0
    /\ retrieved = <<>>
    /\ prompt = <<>>
    /\ answer = <<>>
    /\ verification = <<>>
    /\ exc = NoException
    /\ response = NoResponse
    /\ retrCalls = 0
    /\ gens = <<>>
    /\ verifs = <<>>
    /\ logFiles = <<>>
    /\ call = NoCall
    /\ clock = 0
    /\ disk = {}
    /\ nwrites = 0

NoFilterCall == [filters |-> None, top_k |-> None]
NoQuery == [where |-> None, n_results |-> 0, results |-> <<>>]

\* no direct call of generate or of retrieve was made
CallsIdle ==
    /\ posts = <<>>
    /\ filtIn = NoFilterCall
    /\ filtOut = NoQuery

\* chunk_text_with_metadata was not called
ChunkIdle ==
    /\ ctext = <<>>
    /\ csize = 0
    /\ coverlap = 0
    /\ cpages = <<>>
    /\ cstart = 0
    /\ cindex = 0
    /\ cchunks = <<>>
    /\ cpc = "idle"

NoLogInput == [user_input |-> <<>>, prompt |-> <<>>, llm_response |-> <<>>]

\* the prompt of the unit specification: a research prompt over N passages
UnitPrompt(n) == build_research_prompt(<<"q">>, [i \in 1..n |-> i])

Init ==
    /\ apiKeySet \in BOOLEAN
    /\ collectionOK \in BOOLEAN
    /\ retrieverInst = FALSE
    /\ llmInst = FALSE
    /\ HandlerIdle
    /\ CallsIdle
    /\ ChunkIdle
    /\ outcomes = {}
    /\ nreq = 0
    /\ vtext = <<>>
    /\ vnum = 0
    /\ vresult = verify_bracket_citations(<<>>, 0)
    /\ vretry = build_retry_prompt(UnitPrompt(0), 0, vresult.invalid)
    /\ logIn = NoLogInput
    /\ logOut = <<>>

DefaultInt(opt, default) == IF TruthyInt(opt) THEN opt[1] ELSE default
DefaultTemp_truthy(opt, default) == IF TruthyInt(opt) THEN opt[1] ELSE default
\* request.temperature if request.temperature is not None else the default
DefaultTemp(opt, default) == IF opt # None THEN opt[1] ELSE default

\* a request enters its handler once the previous one was answered: the
\* handlers are coroutines of one event loop that contain no await, so a
\* started handler runs to its end, its blocking calls and sleeps included,
\* before the loop accepts anything else; the handler's locals and the
\* per-request call records start afresh
Receive(r) ==
    /\ pc \in {"idle", "done"}
    /\ nreq < MaxRequests
    /\ nreq' = nreq + 1
    /\ req' = r
    /\ retrieved' = <<>>
    /\ prompt' = <<>>
    /\ answer' = <<>>
    /\ verification' = <<>>
    /\ response' = NoResponse
    /\ retrCalls' = 0
    /\ gens' = <<>>
    /\ verifs' = <<>>
    /\ logFiles' = <<>>
    /\ call' = NoCall

\* POST /research up to the retrieval call
Research(q, k, t) ==
    /\ Receive([endpoint |-> "research", text |-> Some(q), mode |-> "none",
                case_text |-> None, top_k |-> k, temperature |-> t])
    /\ top_k' = DefaultInt(k, DEFAULT_TOP_K)
    /\ temperature' = DefaultTemp(t, RESEARCH_TEMPERATURE)
    /\ exc' = NoException
    /\ pc' = "retrieve"
    /\ UNCHANGED <<cfgVars, instVars, outcomes, envVars, unitVars>>

ValidMode_any(mode) == TRUE
\* request.mode in ["hypothetical", "reference"]
ValidMode(mode) == mode \in {"hypothetical", "reference"}

\* POST /judgment up to the retrieval call: the mode is validated first
Judgment(facts, mode, k, t) ==
    /\ Receive([endpoint |-> "judgment", text |-> Some(facts), mode |-> mode,
                case_text |-> None, top_k |-> k, temperature |-> t])
    /\ IF ~ValidMode(mode)
       THEN /\ exc' = HTTPException(400)
            /\ pc' = "except"
            /\ top_k' = 0
            /\ temperature' = 0
       ELSE /\ top_k' = DefaultInt(k, DEFAULT_TOP_K)
            /\ temperature' = DefaultTemp(t, JUDGMENT_TEMPERATURE)
            /\ exc' = NoException
            /\ pc' = "retrieve"
    /\ UNCHANGED <<cfgVars, instVars, outcomes, envVars, unitVars>>

NeedsRetrieval_query(query, case_text) == TruthyStr(query)
\* if request.query and not request.case_text
NeedsRetrieval(query, case_text) == TruthyStr(query) /\ ~TruthyStr(case_text)

\* POST /summarize up to the retrieval call or, with a case text, the generation call
Summarize(query, case_text, k, t) ==
    /\ Receive([endpoint |-> "summarize", text |-> query, mode |-> "none",
                case_text |-> case_text, top_k |-> k, temperature |-> t])
    /\ top_k' = DefaultInt(k, SUMMARIZE_TOP_K)
    /\ temperature' = DefaultTemp(t, SUMMARIZE_TEMPERATURE)
    /\ IF ~TruthyStr(case_text) /\ ~TruthyStr(query)
       THEN /\ exc' = HTTPException(400)
            /\ pc' = "except"
       ELSE /\ exc' = NoException
            /\ pc' = IF NeedsRetrieval(query, case_text) THEN "retrieve" ELSE "assemble"
    /\ UNCHANGED <<cfgVars, instVars, outcomes, envVars, unitVars>>

NotFound_never(docs) == FALSE
\* if not retrieved
NotFound(docs) == docs = <<>>

\* get_retriever(), retriever.retrieve(text, top_k) and the empty check
Retrieve(ranking) ==
    /\ pc = "retrieve"
    /\ IF ~retrieverInst /\ ~collectionOK
       THEN /\ exc' = CollectionError
            /\ pc' = "except"
            /\ UNCHANGED <<retrieverInst, retrieved, retrCalls>>
       ELSE IF top_k < 1
       THEN \* the store refuses a query for less than one result
            /\ retrieverInst' = TRUE
            /\ retrCalls' = retrCalls + 1
            /\ exc' = StoreError
            /\ pc' = "except"
            /\ UNCHANGED retrieved
       ELSE /\ retrieverInst' = TRUE
            /\ retrieved' = retrieve(ranking, top_k)
            /\ retrCalls' = retrCalls + 1
            /\ IF NotFound(retrieved')
               THEN exc' = HTTPException(404) /\ pc' = "except"
               ELSE exc' = exc /\ pc' = "assemble"
    /\ UNCHANGED <<cfgVars, llmInst, req, top_k, temperature, prompt, answer, verification,
                   response, gens, verifs, logFiles, outcomes, nreq, call, envVars, unitVars>>

\* build_research_prompt / build_judgment_prompt / build_summarize_prompt
Assemble ==
    /\ pc = "assemble"
    /\ prompt' = CASE req.endpoint = "research" ->
                        build_research_prompt(req.text[1], retrieved)
                   [] req.endpoint = "judgment" ->
                        build_judgment_prompt(req.text[1], req.mode, retrieved)
                   [] req.endpoint = "summarize" ->
                        build_summarize_prompt(IF TruthyStr(req.text) THEN req.text[1] ELSE <<>>,
                                               retrieved, req.case_text)
    /\ pc' = "generate"
    /\ UNCHANGED <<cfgVars, instVars, req, top_k, temperature, retrieved, answer, verification,
                   exc, response, callVars, outcomes, nreq, call, envVars, unitVars>>

\* the record of one generate call: what it was given, what it returned (or
\* that it raised), how many transport attempts it made, how long it slept,
\* and whether its last attempt failed
GenCall(c, text, attempts, exhausted, raised) ==
    [prompt |-> c.prompt, temperature |-> c.temperature, text |-> text,
     attempts |-> attempts, sleeps |-> c.sleeps, exhausted |-> exhausted,
     raised |-> raised]

StartCall(p, t) ==
    [active |-> TRUE, prompt |-> p, temperature |-> t, attempt |-> 0, sleeps |-> <<>>]

\* get_llm_client() and the call of the first llm_client.generate(prompt, temperature)
Generate ==
    /\ pc = "generate"
    /\ IF ~llmInst /\ ~apiKeySet
       THEN /\ exc' = ValueError
            /\ pc' = "except"
            /\ UNCHANGED <<llmInst, call>>
       ELSE /\ llmInst' = TRUE
            /\ call' = StartCall(prompt, temperature)
            /\ exc' = exc
            /\ pc' = "transport"
    /\ UNCHANGED <<cfgVars, retrieverInst, req, top_k, temperature, retrieved, prompt, answer,
                   verification, response, retrCalls, gens, verifs, logFiles, outcomes, nreq,
                   envVars, unitVars>>

AfterGenerate_first(endpoint, ncalls) == IF endpoint = "summarize" THEN "log" ELSE "verify"
AfterGenerate_log(endpoint, ncalls) == "log"
\* where the caller goes on when a generate call returns: the first text of
\* research and judgment is verified, the second verified again, summarize
\* logs; of the console handlers only research makes a second call; a direct
\* caller is done
AfterGenerate(endpoint, ncalls) ==
    CASE endpoint = "summarize" -> "log"
      [] endpoint \in {"research", "judgment"} ->
            IF ncalls = 0 THEN "verify" ELSE "reverify"
      [] endpoint = "cli_summarize" -> "cli_log"
      [] endpoint = "cli_judgment" -> "cli_verify"
      [] endpoint = "cli_research" ->
            IF ncalls = 0 THEN "cli_verify" ELSE "cli_reverify"
      [] endpoint = "none" -> "done"

\* one requests.post of the generate call in progress and the loop body after
\* it; when the call returns, answer = result["text"]
TransportStep(o) ==
    /\ pc = "transport"
    /\ call.attempt < RETRY_COUNT
    /\ LET step == generate_attempt(o, call.attempt, RETRY_COUNT)
           slept == [call EXCEPT !.attempt = @ + 1, !.sleeps = Append(@, step.sleep)]
       IN  IF step.done /\ step.raised
           THEN /\ gens' = Append(gens, GenCall(call, <<>>, call.attempt + 1,
                                                o.kind # "ok", TRUE))
                /\ exc' = TransportError
                /\ pc' = "except"
                /\ call' = NoCall
                /\ UNCHANGED answer
           ELSE IF step.done
           THEN /\ gens' = Append(gens, GenCall(call, step.text, call.attempt + 1,
                                                o.kind # "ok", FALSE))
                /\ answer' = step.text
                /\ pc' = AfterGenerate(req.endpoint, Len(gens))
                /\ call' = NoCall
                /\ exc' = exc
           ELSE IF slept.attempt < RETRY_COUNT
           THEN /\ call' = slept
                /\ UNCHANGED <<gens, answer, pc, exc>>
           ELSE \* the for loop ran out: the return after it
                /\ gens' = Append(gens, GenCall(slept, ALL_RETRIES_FAILED, slept.attempt,
                                                TRUE, FALSE))
                /\ answer' = ALL_RETRIES_FAILED
                /\ pc' = AfterGenerate(req.endpoint, Len(gens))
                /\ call' = NoCall
                /\ exc' = exc
    /\ UNCHANGED <<cfgVars, instVars, req, top_k, temperature, retrieved, prompt,
                   verification, response, retrCalls, verifs, logFiles, outcomes, nreq,
                   envVars>>

TransportAttempt(o) == TransportStep(o) /\ UNCHANGED unitVars

\* verification = verify_bracket_citations(answer, len(retrieved)) and the retry test
Verify ==
    /\ pc = "verify"
    /\ LET v == verify_bracket_citations(answer, Len(retrieved)) IN
         /\ verification' = <<v>>
         /\ verifs' = Append(verifs, v)
         /\ pc' = IF should_retry_generation(v) THEN "retry" ELSE "log"
    /\ UNCHANGED <<cfgVars, instVars, req, top_k, temperature, retrieved, prompt, answer,
                   exc, response, retrCalls, gens, logFiles, outcomes, nreq, call, envVars, unitVars>>

\* build_retry_prompt and the call of the second llm_client.generate
RetryGenerate ==
    /\ pc = "retry"
    /\ call' = StartCall(build_retry_prompt(prompt, Len(retrieved), verification[1].invalid),
                         temperature)
    /\ pc' = "transport"
    /\ UNCHANGED <<cfgVars, instVars, req, top_k, temperature, retrieved, prompt, answer,
                   verification, exc, response, retrCalls, gens, verifs, logFiles, outcomes,
                   nreq, envVars, unitVars>>

RetryVerify_stale ==
    /\ pc = "reverify"
    /\ verifs' = Append(verifs, verification[1])
    /\ pc' = "log"
    /\ UNCHANGED <<cfgVars, instVars, req, top_k, temperature, retrieved, prompt, answer,
                   verification, exc, response, retrCalls, gens, logFiles, outcomes, nreq, call,
                   envVars, unitVars>>

\* the verification of the second text; no test follows it
RetryVerify ==
    /\ pc = "reverify"
    /\ LET v == verify_bracket_citations(answer, Len(retrieved)) IN
         /\ verification' = <<v>>
         /\ verifs' = Append(verifs, v)
    /\ pc' = "log"
    /\ UNCHANGED <<cfgVars, instVars, req, top_k, temperature, retrieved, prompt, answer,
                   exc, response, retrCalls, gens, logFiles, outcomes, nreq, call, envVars, unitVars>>

\* the disclaimer strings, with the source's dash written as "-"
Disclaimer(r) ==
    CASE r.endpoint = "research" -> "For research/educational use only."
      [] r.endpoint = "judgment" ->
            IF r.mode = "hypothetical" THEN "HYPOTHETICAL ANALYSIS - NOT LEGAL ADVICE"
                                       ELSE "REFERENCE ANALYSIS - NOT LEGAL ADVICE"
      [] OTHER -> "none"

Outcome(e, status_code) == [exc |-> e, status_code |-> status_code]

LoggedPrompt_final(first_prompt, calls) == calls[Len(calls)].prompt
\* create_log_entry(..., prompt=prompt, ...): the handler's local prompt, which
\* no generate call of the request replaces
LoggedPrompt(first_prompt, calls) == first_prompt

\* f"{mode}_{timestamp}.json" with timestamp = strftime("%Y%m%d_%H%M%S"): the
\* mode and the time in whole seconds
LogFileName(mode, now) == <<mode, now>>

\* open(filepath, 'w') and json.dump: a file of that name is replaced
WriteFile(files, name, writer) ==
    {f \in files : f.name # name} \cup {[name |-> name, by |-> writer]}

\* create_log_entry, write_log_file and the APIResponse returned; now is the
\* time datetime.now() gives, not before the time it gave last
LogAndRespond(now) ==
    /\ pc = "log"
    /\ now >= clock
    /\ clock' = now
    /\ LET user_input ==
             IF req.endpoint = "summarize" /\ ~TruthyStr(req.text)
             THEN SubSeq(req.case_text[1], 1, Min(500, Len(req.case_text[1])))
             ELSE req.text[1]
           logged == IF req.endpoint = "summarize" THEN <<>> ELSE verification
       IN  logFiles' = Append(logFiles,
                              create_log_entry(req.endpoint, user_input, retrieved,
                                               LoggedPrompt(prompt, gens), answer, logged,
                                               temperature))
    /\ disk' = WriteFile(disk, LogFileName(req.endpoint, now), nreq)
    /\ nwrites' = nwrites + 1
    /\ response' = [status_code |-> 200,
                    mode |-> req.endpoint,
                    answer |-> answer,
                    retrieved |-> retrieved,
                    verification |-> IF req.endpoint = "summarize" THEN <<>> ELSE verification,
                    logfile |-> LogFileName(req.endpoint, now),
                    disclaimer |-> Disclaimer(req)]
    /\ outcomes' = outcomes \cup {Outcome(exc, 200)}
    /\ pc' = "done"
    /\ UNCHANGED <<cfgVars, instVars, req, localVars, exc, retrCalls, gens, verifs, nreq, call,
                   unitVars>>

\* except Exception as e: raise HTTPException(status_code=500, detail=str(e))
except_Exception(e) == HTTPException(500)

\* the except clause of the handler catches whatever the try block raised,
\* and the framework answers with the status of the exception that leaves it
ExceptClause ==
    /\ pc = "except"
    /\ response' = [NoResponse EXCEPT !.status_code = except_Exception(exc).status_code]
    /\ outcomes' = outcomes \cup {Outcome(exc, response'.status_code)}
    /\ pc' = "done"
    /\ UNCHANGED <<cfgVars, instVars, req, localVars, exc, callVars, nreq, call, envVars, unitVars>>

Next ==
    \/ \E k \in TopKInputs, t \in TemperatureInputs : Research(<<"q">>, k, t)
    \/ \E m \in ModeInputs, k \in TopKInputs, t \in TemperatureInputs :
          Judgment(<<"f">>, m, k, t)
    \/ \E q \in QueryInputs, c \in CaseTextInputs, k \in TopKInputs, t \in TemperatureInputs :
          Summarize(q, c, k, t)
    \/ \E r \in Rankings : Retrieve(r)
    \/ Assemble
    \/ Generate
    \/ \E o \in TransportOutcomes : TransportAttempt(o)
    \/ Verify
    \/ RetryGenerate
    \/ RetryVerify
    \/ \E now \in 0..MaxClock : LogAndRespond(now)
    \/ ExceptClause

Spec == Init /\ [][Next]_vars

\* the steps of a handler after it received its request: each is a piece of
\* straight-line code or an external call, which returns or times out
HandlerStep ==
    \/ \E r \in Rankings : Retrieve(r)
    \/ Assemble
    \/ Generate
    \/ \E o \in TransportOutcomes : TransportAttempt(o)
    \/ Verify
    \/ RetryGenerate
    \/ RetryVerify
    \/ \E now \in 0..MaxClock : LogAndRespond(now)
    \/ ExceptClause

\* the values of the optional top_k override: absent, 0, negative, positive
TopKOverrides == {None, Some(0), Some(0 - 1), Some(2)}

\* requests with any top_k override
NextTopK ==
    \/ \E k \in TopKOverrides : Research(<<"q">>, k, None)
    \/ \E k \in TopKOverrides : Judgment(<<"f">>, "hypothetical", k, None)
    \/ \E k \in TopKOverrides : Summarize(Some(<<"q">>), None, k, None)
    \/ HandlerStep

SpecTopK == Init /\ [][NextTopK]_vars

\* the first request of a server process, without overrides
NextLive ==
    \/ nreq = 0 /\ Research(<<"q">>, None, None)
    \/ nreq = 0 /\ \E m \in ModeInputs : Judgment(<<"f">>, m, None, None)
    \/ nreq = 0 /\ \E q \in QueryInputs, c \in CaseTextInputs : Summarize(q, c, None, None)
    \/ HandlerStep

\* the handler of that request, running on once started
SpecLive == Init /\ [][NextLive]_vars /\ WF_vars(HandlerStep)

(* --------------- SpecVerify: the verifier on every text ---------------- *)
InitVerify ==
    /\ apiKeySet = TRUE
    /\ collectionOK = TRUE
    /\ retrieverInst = FALSE
    /\ llmInst = FALSE
    /\ HandlerIdle
    /\ CallsIdle
    /\ ChunkIdle
    /\ outcomes = {}
    /\ nreq = 0
    /\ vtext = <<>>
    /\ vnum \in 0..MaxN
    /\ vresult = verify_bracket_citations(<<>>, vnum)
    /\ vretry = build_retry_prompt(UnitPrompt(vnum), vnum, vresult.invalid)
    /\ logIn = NoLogInput
    /\ logOut = <<>>

\* the text under test grows by one character and is verified, and the retry
\* prompt is built from the result
VerifyText(c) ==
    /\ Len(vtext) < MaxTextLen
    /\ vtext' = Append(vtext, c)
    /\ vresult' = verify_bracket_citations(vtext', vnum)
    /\ vretry' = build_retry_prompt(UnitPrompt(vnum), vnum, vresult'.invalid)
    /\ UNCHANGED <<vnum, logIn, logOut, posts, filtIn, filtOut, chunkVars, cfgVars, instVars, pc, req, localVars, exc,
                   response, callVars, outcomes, nreq, call, envVars>>

NextVerify == \E c \in Alphabet : VerifyText(c)

SpecVerify == InitVerify /\ [][NextVerify]_vars

(* ------------- SpecLog: create_log_entry on texts of any length -------- *)
\* how far around a cap the lengths of the texts under test go
MaxOver == 1

TextOfLen(n) == [i \in 1..n |-> "x"]

\* no text, and the lengths from MaxOver below the cap to past the cap and its "..."
TestLens(cap) == {0} \cup {cap + k : k \in (0 - MaxOver)..(MaxOver + 3)}

InitLog ==
    /\ apiKeySet = TRUE
    /\ collectionOK = TRUE
    /\ retrieverInst = FALSE
    /\ llmInst = FALSE
    /\ HandlerIdle
    /\ CallsIdle
    /\ ChunkIdle
    /\ outcomes = {}
    /\ nreq = 0
    /\ vtext = <<>>
    /\ vnum = 0
    /\ vresult = verify_bracket_citations(<<>>, 0)
    /\ vretry = build_retry_prompt(UnitPrompt(0), 0, vresult.invalid)
    /\ \E a \in TestLens(USER_INPUT_CAP), b \in TestLens(PROMPT_CAP), c \in TestLens(RESPONSE_CAP) :
          logIn = [user_input |-> TextOfLen(a), prompt |-> TextOfLen(b),
                   llm_response |-> TextOfLen(c)]
    /\ logOut = <<>>

\* the log entry of the texts under test is created
CreateLogEntry ==
    /\ logOut = <<>>
    /\ logOut' = <<create_log_entry("research", logIn.user_input, <<>>, logIn.prompt,
                                    logIn.llm_response, <<>>, 0)>>
    /\ UNCHANGED <<logIn, vtext, vnum, vresult, vretry, posts, filtIn, filtOut, chunkVars,
                   cfgVars, instVars, pc, req, localVars,
                   exc, response, callVars, outcomes, nreq, call, envVars>>

NextLog == CreateLogEntry

SpecLog == InitLog /\ [][NextLog]_vars

(* ------------- SpecGenerate: one direct call of generate --------------- *)
\* a constructed client, no call made yet
InitGenerate ==
    /\ apiKeySet = TRUE
    /\ collectionOK = TRUE
    /\ retrieverInst = FALSE
    /\ llmInst = TRUE
    /\ HandlerIdle
    /\ CallsIdle
    /\ ChunkIdle
    /\ outcomes = {}
    /\ nreq = 0
    /\ vtext = <<>>
    /\ vnum = 0
    /\ vresult = verify_bracket_citations(<<>>, 0)
    /\ vretry = build_retry_prompt(UnitPrompt(0), 0, vresult.invalid)
    /\ logIn = NoLogInput
    /\ logOut = <<>>

\* client.generate(prompt, temperature) is called by a direct caller
CallGenerate(t) ==
    /\ pc = "idle"
    /\ call' = StartCall(UnitPrompt(1), t)
    /\ pc' = "transport"
    /\ UNCHANGED <<cfgVars, instVars, req, localVars, exc, response, callVars, outcomes, nreq,
                   envVars, unitVars>>

\* one requests.post of the call, and how it ended
ObservedAttempt(o) ==
    /\ TransportStep(o)
    /\ posts' = Append(posts, [kind |-> o.kind, code |-> o.code])
    /\ UNCHANGED <<vtext, vnum, vresult, vretry, logIn, logOut, filtIn, filtOut, chunkVars>>

NextGenerate ==
    \/ \E t \in {RESEARCH_TEMPERATURE, JUDGMENT_TEMPERATURE} : CallGenerate(t)
    \/ \E o \in TransportOutcomes : ObservedAttempt(o)

SpecGenerate == InitGenerate /\ [][NextGenerate]_vars

(* ------------- SpecRetrieve: retrieve with metadata filters ------------ *)
\* LegalRetriever.retrieve(query, top_k, filters): the where clause and the
\* n_results of its collection.query, and the results in rank order
RetrieveFiltered(filters, k, ranking) ==
    /\ filtIn' = [filters |-> filters, top_k |-> k]
    /\ filtOut' = [where |-> where_clause(filters),
                   n_results |-> n_results(k),
                   results |-> retrieve(ranking, n_results(k))]
    /\ UNCHANGED <<vtext, vnum, vresult, vretry, logIn, logOut, posts, chunkVars, cfgVars,
                   instVars, pc,
                   req, localVars, exc, response, callVars, outcomes, nreq, call, envVars>>

NextRetrieve ==
    \E f \in FilterInputs, k \in {None, Some(1), Some(2)}, r \in Rankings :
        RetrieveFiltered(f, k, r)

SpecRetrieve == InitVerify /\ [][NextRetrieve]_vars

(* ---------------- SpecCli: the console handlers of cli.py -------------- *)
TypeError == [type |-> "TypeError", status_code |-> 0]

\* what Prompt.ask can return for a free text, and for a choice
CliTexts == {<<>>, <<"q">>}
JudgmentChoices == {"h", "r"}
SummarizeChoices == {"q", "t"}

CliRequest(endpoint, text, mode, case_text) ==
    [endpoint |-> endpoint, text |-> text, mode |-> mode, case_text |-> case_text,
     top_k |-> None, temperature |-> None]

\* the mode a console handler logs under
CliMode(endpoint) ==
    CASE endpoint = "cli_research" -> "research"
      [] endpoint = "cli_judgment" -> "judgment"
      [] endpoint = "cli_summarize" -> "summarize"

\* handle_research up to the retrieval call: an empty query returns at once
handle_research(query) ==
    /\ Receive(CliRequest("cli_research", Some(query), "none", None))
    /\ top_k' = DEFAULT_TOP_K
    /\ temperature' = RESEARCH_TEMPERATURE
    /\ exc' = NoException
    /\ pc' = IF query = <<>> THEN "done" ELSE "cli_retrieve"
    /\ UNCHANGED <<cfgVars, instVars, outcomes, envVars, unitVars>>

\* handle_judgment up to the retrieval call
handle_judgment(facts, mode_choice) ==
    /\ Receive(CliRequest("cli_judgment", Some(facts),
                          IF mode_choice = "h" THEN "hypothetical" ELSE "reference", None))
    /\ top_k' = DEFAULT_TOP_K
    /\ temperature' = JUDGMENT_TEMPERATURE
    /\ exc' = NoException
    /\ pc' = "cli_retrieve"
    /\ UNCHANGED <<cfgVars, instVars, outcomes, envVars, unitVars>>

\* handle_summarize up to the retrieval call (by query) or the prompt (by text)
handle_summarize(choice, text) ==
    /\ Receive(IF choice = "q"
               THEN CliRequest("cli_summarize", Some(text), "none", None)
               ELSE CliRequest("cli_summarize", None, "none", Some(text)))
    /\ top_k' = SUMMARIZE_TOP_K
    /\ temperature' = SUMMARIZE_TEMPERATURE
    /\ exc' = NoException
    /\ pc' = IF choice = "q" THEN "cli_retrieve" ELSE "cli_generate"
    /\ UNCHANGED <<cfgVars, instVars, outcomes, envVars, unitVars>>

\* get_retriever() and retriever.retrieve; handle_research and handle_judgment
\* return on an empty result, handle_summarize goes on; an exception leaves main
CliRetrieve(ranking) ==
    /\ pc = "cli_retrieve"
    /\ IF ~retrieverInst /\ ~collectionOK
       THEN /\ exc' = CollectionError
            /\ pc' = "crashed"
            /\ UNCHANGED <<retrieverInst, retrieved, retrCalls>>
       ELSE /\ retrieverInst' = TRUE
            /\ retrieved' = retrieve(ranking, top_k)
            /\ retrCalls' = retrCalls + 1
            /\ exc' = exc
            /\ pc' = IF req.endpoint # "cli_summarize" /\ NotFound(retrieved')
                     THEN "done" ELSE "cli_generate"
    /\ UNCHANGED <<cfgVars, llmInst, req, top_k, temperature, prompt, answer, verification,
                   response, gens, verifs, logFiles, outcomes, nreq, call, envVars, unitVars>>

\* the prompt is built, get_llm_client() and the call of llm_client.generate
CliGenerate ==
    /\ pc = "cli_generate"
    /\ prompt' = CASE req.endpoint = "cli_research" ->
                        build_research_prompt(req.text[1], retrieved)
                   [] req.endpoint = "cli_judgment" ->
                        build_judgment_prompt(req.text[1], req.mode, retrieved)
                   [] req.endpoint = "cli_summarize" ->
                        build_summarize_prompt(IF TruthyStr(req.text) THEN req.text[1] ELSE <<>>,
                                               retrieved, req.case_text)
    /\ IF ~llmInst /\ ~apiKeySet
       THEN /\ exc' = ValueError
            /\ pc' = "crashed"
            /\ UNCHANGED <<llmInst, call>>
       ELSE /\ llmInst' = TRUE
            /\ call' = StartCall(prompt', temperature)
            /\ exc' = exc
            /\ pc' = "transport"
    /\ UNCHANGED <<cfgVars, retrieverInst, req, top_k, temperature, retrieved, answer,
                   verification, response, retrCalls, gens, verifs, logFiles, outcomes, nreq,
                   envVars, unitVars>>

\* the verification of the first text; handle_research then tests it and makes
\* the second generate call with the retry prompt, handle_judgment has no such test
CliVerify ==
    /\ pc = "cli_verify"
    /\ LET v == verify_bracket_citations(answer, Len(retrieved)) IN
         /\ verification' = <<v>>
         /\ verifs' = Append(verifs, v)
         /\ IF req.endpoint = "cli_research" /\ should_retry_generation(v)
            THEN /\ call' = StartCall(build_retry_prompt(prompt, Len(retrieved), v.invalid),
                                      temperature)
                 /\ pc' = "transport"
            ELSE /\ call' = call
                 /\ pc' = "cli_log"
    /\ UNCHANGED <<cfgVars, instVars, req, top_k, temperature, retrieved, prompt, answer,
                   exc, response, retrCalls, gens, logFiles, outcomes, nreq, envVars, unitVars>>

\* handle_research: the verification of the second text
CliReverify ==
    /\ pc = "cli_reverify"
    /\ LET v == verify_bracket_citations(answer, Len(retrieved)) IN
         /\ verification' = <<v>>
         /\ verifs' = Append(verifs, v)
    /\ pc' = "cli_log"
    /\ UNCHANGED <<cfgVars, instVars, req, top_k, temperature, retrieved, prompt, answer,
                   exc, response, retrCalls, gens, logFiles, outcomes, nreq, call, envVars, unitVars>>

\* the answer is displayed, then create_log_entry and write_log_file;
\* handle_summarize logs query or case_text[:100], which raises when the query
\* is empty and there is no case text
CliLog(now) ==
    /\ pc = "cli_log"
    /\ now >= clock
    /\ IF req.endpoint = "cli_summarize" /\ ~TruthyStr(req.text) /\ req.case_text = None
       THEN /\ exc' = TypeError
            /\ pc' = "crashed"
            /\ UNCHANGED <<logFiles, envVars>>
       ELSE /\ LET user_input ==
                     IF req.endpoint = "cli_summarize" /\ ~TruthyStr(req.text)
                     THEN SubSeq(req.case_text[1], 1, Min(100, Len(req.case_text[1])))
                     ELSE req.text[1]
                   logged == IF req.endpoint = "cli_summarize" THEN <<>> ELSE verification
               IN  logFiles' = Append(logFiles,
                                      create_log_entry(CliMode(req.endpoint), user_input,
                                                       retrieved, LoggedPrompt(prompt, gens),
                                                       answer, logged, temperature))
            /\ clock' = now
            /\ disk' = WriteFile(disk, LogFileName(CliMode(req.endpoint), now), nreq)
            /\ nwrites' = nwrites + 1
            /\ exc' = exc
            /\ pc' = "done"
    /\ UNCHANGED <<cfgVars, instVars, req, localVars, response, retrCalls, gens, verifs,
                   outcomes, nreq, call, unitVars>>

NextCli ==
    \/ \E q \in CliTexts : handle_research(q)
    \/ \E c \in JudgmentChoices : handle_judgment(<<"f">>, c)
    \/ \E c \in SummarizeChoices, t \in CliTexts : handle_summarize(c, t)
    \/ \E r \in Rankings : CliRetrieve(r)
    \/ CliGenerate
    \/ \E o \in TransportOutcomes : TransportAttempt(o)
    \/ CliVerify
    \/ CliReverify
    \/ \E now \in 0..MaxClock : CliLog(now)

SpecCli == Init /\ [][NextCli]_vars

(* ------------- SpecChunk: utils.chunk_text_with_metadata --------------- *)
MaxChunkText == 4
MaxChunkSize == 3
\* iterations after which a loop that has not ended is followed no further
MaxChunks == 6

\* a text of n characters, each written as its position
ChunkTexts == {[i \in 1..n |-> i] : n \in 0..MaxChunkText}

\* page_metadata: no page, or two pages of two characters each
PageInputs ==
    { <<>>,
      <<[page_number |-> 1, char_count |-> 2], [page_number |-> 2, char_count |-> 2]>> }

Max(a, b) == IF a >= b THEN a ELSE b

\* text[start:end] of Python: a negative index counts from the end, and both
\* are clipped to the text
py_slice(text, start, end) ==
    LET norm(i) == IF i < 0 THEN Max(i + Len(text), 0) ELSE Min(i, Len(text))
    IN  SubSeq(text, norm(start) + 1, norm(end))

\* the for loop over page_metadata: the first page at whose end char_count >= start
RECURSIVE page_number_of(_, _, _)
page_number_of(pages, char_count, start) ==
    IF pages = <<>> THEN 1
    ELSE IF char_count + Head(pages).char_count >= start
         THEN Head(pages).page_number
         ELSE page_number_of(Tail(pages), char_count + Head(pages).char_count, start)

next_start_end(end, chunk_overlap) == end
\* start = end - chunk_overlap
next_start(end, chunk_overlap) == end - chunk_overlap

InitChunk ==
    /\ apiKeySet = TRUE
    /\ collectionOK = TRUE
    /\ retrieverInst = FALSE
    /\ llmInst = FALSE
    /\ HandlerIdle
    /\ CallsIdle
    /\ outcomes = {}
    /\ nreq = 0
    /\ vtext = <<>>
    /\ vnum = 0
    /\ vresult = verify_bracket_citations(<<>>, 0)
    /\ vretry = build_retry_prompt(UnitPrompt(0), 0, vresult.invalid)
    /\ logIn = NoLogInput
    /\ logOut = <<>>
    /\ ctext \in ChunkTexts
    /\ csize \in 0..MaxChunkSize
    /\ coverlap \in 0..MaxChunkSize
    /\ cpages \in PageInputs
    /\ cstart = 0
    /\ cindex = 0
    /\ cchunks = <<>>
    /\ cpc = "loop"

\* one pass of the while loop
ChunkIteration ==
    /\ cpc = "loop"
    /\ cstart < Len(ctext)
    /\ Len(cchunks) < MaxChunks
    /\ LET end == cstart + csize IN
         /\ cchunks' = Append(cchunks,
                              [text |-> py_slice(ctext, cstart, end),
                               chunk_index |-> cindex,
                               page_number |-> page_number_of(cpages, 0, cstart),
                               start_char |-> cstart,
                               end_char |-> end])
         /\ cstart' = next_start(end, coverlap)
    /\ cindex' = cindex + 1
    /\ UNCHANGED <<ctext, csize, coverlap, cpages, cpc, vtext, vnum, vresult, vretry, logIn,
                   logOut, posts, filtIn, filtOut, cfgVars, instVars, pc, req, localVars, exc,
                   response, callVars, outcomes, nreq, call, envVars>>

\* the loop condition fails: return chunks
ChunkReturn ==
    /\ cpc = "loop"
    /\ ~(cstart < Len(ctext))
    /\ cpc' = "returned"
    /\ UNCHANGED <<ctext, csize, coverlap, cpages, cstart, cindex, cchunks, vtext, vnum,
                   vresult, vretry, logIn, logOut, posts, filtIn, filtOut, cfgVars, instVars,
                   pc, req, localVars, exc, response, callVars, outcomes, nreq, call, envVars>>

NextChunk == ChunkIteration \/ ChunkReturn

\* the function runs on once called
SpecChunk == InitChunk /\ [][NextChunk]_vars /\ WF_vars(NextChunk)

(* ------------------------- citations of a text ------------------------- *)
\* The bracket-enclosed integers of a text, stated without the scanner: the
\* values of all the spans "[" digits "]" with at least one digit.
Pow10(n) == IF n = 0 THEN 1 ELSE IF n = 1 THEN 10 ELSE IF n = 2 THEN 100
            ELSE IF n = 3 THEN 1000 ELSE IF n = 4 THEN 10000 ELSE 10 ^ n

RECURSIVE DecimalSum(_, _)
DecimalSum(ds, k) ==
    IF k > Len(ds) THEN 0
    ELSE DigitVal(ds[k]) * Pow10(Len(ds) - k) + DecimalSum(ds, k + 1)

CitationSpans(text) ==
    {p \in (1..Len(text)) \X (1..Len(text)) :
        /\ p[1] + 1 < p[2]
        /\ text[p[1]] = "["
        /\ text[p[2]] = "]"
        /\ \A k \in (p[1] + 1)..(p[2] - 1) : text[k] \in Digits}

BracketInts(text) ==
    {DecimalSum(SubSeq(text, p[1] + 1, p[2] - 1), 1) : p \in CitationSpans(text)}

NoDuplicates(list) == \A i, j \in 1..Len(list) : i # j => list[i] # list[j]
StrictlyAscending(list) == \A i \in 1..(Len(list) - 1) : list[i] < list[i + 1]

(* ------------------------------- claims -------------------------------- *)
PipelineEndpoint == req.endpoint \in {"research", "judgment"}

\* C1: in a research or judgment request that retrieved at least one passage,
\* a second generation call is made only if the first verification's invalid
\* list is non-empty, there are never more than two generation calls, and a
\* request that was verified ends with 1 call when the first invalid list is
\* empty and with exactly 2 otherwise.
C1_RetryIffFirstInvalid ==
    (PipelineEndpoint /\ retrieved # <<>>) =>
        /\ Len(gens) <= 2
        /\ Len(gens) = 2 => (Len(verifs) >= 1 /\ verifs[1].invalid # <<>>)
        /\ (pc = "done" /\ Len(verifs) >= 1) =>
              Len(gens) = (IF verifs[1].invalid = <<>> THEN 1 ELSE 2)

\* a request whose second text is still invalid has ended after two calls
C1_Witness ==
    /\ PipelineEndpoint
    /\ pc = "done"
    /\ Len(gens) = 2
    /\ Len(verifs) = 2
    /\ verifs[2].invalid # <<>>

\* C2: when the retry ran, the response's answer is the text of the second
\* generation call, its verification is that text verified against
\* len(retrieved), and the request is answered with status 200.
C2_SecondAttemptIsFinal ==
    (PipelineEndpoint /\ pc = "done" /\ Len(gens) = 2) =>
        /\ response.status_code = 200
        /\ response.answer = gens[2].text
        /\ response.verification =
              <<verify_bracket_citations(gens[2].text, Len(retrieved))>>

\* the retry ran, the two texts verify differently and the second one is
\* returned with its non-empty invalid list
C2_Witness ==
    /\ PipelineEndpoint
    /\ pc = "done"
    /\ Len(gens) = 2
    /\ response.status_code = 200
    /\ response.answer = gens[2].text
    /\ response.verification # <<verifs[1]>>
    /\ response.verification[1].invalid # <<>>

\* C3: once a retrieval call has returned zero passages, the request goes to
\* its end without a generation call and without writing an audit log file.
C3_NoGroundingNoGeneration ==
    (retrCalls >= 1 /\ retrieved = <<>>) =>
        /\ pc \in {"except", "done"}
        /\ gens = <<>>
        /\ logFiles = <<>>

\* a request has ended after a retrieval that returned nothing
C3_Witness ==
    /\ pc = "done"
    /\ retrCalls = 1
    /\ retrieved = <<>>
    /\ exc = HTTPException(404)
    /\ gens = <<>>
    /\ logFiles = <<>>

\* C4: the status sent for the no-grounding condition differs from the status
\* sent for an unexpected internal fault.
C4_NoGroundingDistinctFromInternalFault ==
    \A a, b \in outcomes :
        (a.exc = HTTPException(404) /\ b.exc.type \in {"ValueError", "CollectionError"})
            => a.status_code # b.status_code

\* C10: a judgment request with an unrecognized mode is answered with 400.
C10_InvalidModeAnswered400 ==
    (pc = "done" /\ req.endpoint = "judgment"
        /\ req.mode \notin {"hypothetical", "reference"})
        => response.status_code = 400

\* C5: valid holds exactly the distinct bracket-enclosed integers of the text
\* in 1..N and invalid exactly those outside 1..N, each number once.
C5_ExactPartition ==
    /\ Range(vresult.valid) = {n \in BracketInts(vtext) : 1 <= n /\ n <= vnum}
    /\ Range(vresult.invalid) = {n \in BracketInts(vtext) : ~(1 <= n /\ n <= vnum)}
    /\ NoDuplicates(vresult.valid)
    /\ NoDuplicates(vresult.invalid)

\* a text that repeats one in-range citation, reported once
C5_Witness ==
    /\ Cardinality(CitationSpans(vtext)) = 2
    /\ Cardinality(BracketInts(vtext)) = 1
    /\ Len(vresult.valid) = 1
    /\ vresult.invalid = <<>>

\* C6: valid and invalid are strictly ascending and disjoint, every member of
\* valid lies in 1..N, and neither 0 nor a number above N is in valid.
C6_SortedDisjointInRange ==
    /\ StrictlyAscending(vresult.valid)
    /\ StrictlyAscending(vresult.invalid)
    /\ Range(vresult.valid) \cap Range(vresult.invalid) = {}
    /\ Range(vresult.valid) \subseteq 1..vnum
    /\ \A n \in BracketInts(vtext) : (n = 0 \/ n > vnum) => n \notin Range(vresult.valid)

\* two in-range citations appear in descending order in the text
C6_Witness ==
    /\ Len(vresult.valid) = 2
    /\ LET found == re_findall(vtext, 1) IN
         Len(found) = 2 /\ int(found[1]) > int(found[2])

\* C7: with N = 0 the valid list is empty and every distinct bracket-enclosed
\* integer of the text is in invalid.
C7_ZeroRetrieved ==
    vnum = 0 =>
        /\ vresult.valid = <<>>
        /\ BracketInts(vtext) \subseteq Range(vresult.invalid)

\* N = 0 and the text cites both 0 and a positive number
C7_Witness ==
    /\ vnum = 0
    /\ 0 \in BracketInts(vtext)
    /\ \E n \in BracketInts(vtext) : n > 0
    /\ Len(vresult.invalid) = 2

\* C8: a text without any bracket-enclosed integer gives valid = [] and
\* invalid = [], whatever N is.
C8_NoCitations ==
    BracketInts(vtext) = {} => (vresult.valid = <<>> /\ vresult.invalid = <<>>)

\* a text with brackets and digits but no bracket-enclosed integer, N > 0
C8_Witness ==
    /\ BracketInts(vtext) = {}
    /\ vnum > 0
    /\ Len(vtext) >= 3
    /\ vtext[1] = "["
    /\ vtext[2] \in Digits
    /\ "]" \in Range(vtext)
    /\ vresult.valid = <<>>
    /\ vresult.invalid = <<>>

(* ------------------------ claims C11 to C20 ---------------------------- *)
MissingInput ==
    req.endpoint = "summarize" /\ ~TruthyStr(req.text) /\ ~TruthyStr(req.case_text)

UnrecognizedMode ==
    req.endpoint = "judgment" /\ req.mode \notin {"hypothetical", "reference"}

\* C11: a summarize request with neither query nor case_text is answered
\* with status 400.
C11_MissingInputAnswered400 ==
    (pc = "done" /\ MissingInput) => response.status_code = 400

\* C12: an invalid request (judgment with an unrecognized mode, summarize with
\* neither query nor case text) goes to its end without a retrieval call, a
\* generation call or an audit log write.
C12_InvalidInputNoExternalCall ==
    (UnrecognizedMode \/ MissingInput) =>
        /\ pc \in {"except", "done"}
        /\ retrCalls = 0
        /\ gens = <<>>
        /\ logFiles = <<>>

\* a judgment request with an unrecognized mode was answered
C12_Witness ==
    /\ UnrecognizedMode
    /\ pc = "done"
    /\ exc = HTTPException(400)
    /\ retrCalls = 0
    /\ gens = <<>>
    /\ logFiles = <<>>

\* C13: a generate call makes at most 3 transport attempts, and a call whose
\* attempts all failed returns an "[ERROR: ...]" text; it does not raise.
C13_BoundedAttemptsThenSentinel ==
    /\ call.active => call.attempt < RETRY_COUNT
    /\ \A i \in 1..Len(gens) :
          /\ gens[i].attempts <= 3
          /\ ~gens[i].raised
          /\ gens[i].exhausted => (gens[i].attempts = 3 /\ IsSentinel(gens[i].text))

\* a call has returned after three failed attempts, the last one an exception
C13_Witness ==
    /\ gens # <<>>
    /\ gens[1].exhausted
    /\ gens[1].attempts = 3
    /\ gens[1].text = sentinel(<<"t">>)

\* C14: when a generate call of a request that retrieved at least one passage
\* failed on every transport attempt, the request is not aborted: its sentinel
\* text is verified as any text is, the request is answered with status 200
\* and one audit log entry is written.
C14_SentinelGoesThroughPipeline ==
    (retrieved # <<>> /\ \E i \in 1..Len(gens) : gens[i].exhausted) =>
        /\ pc # "except"
        /\ exc = NoException
        /\ \A i \in 1..Len(verifs) :
              verifs[i] = verify_bracket_citations(gens[i].text, Len(retrieved))
        /\ pc = "done" =>
              /\ response.status_code = 200
              /\ response.answer = gens[Len(gens)].text
              /\ Len(logFiles) = 1
              /\ PipelineEndpoint => Len(verifs) = Len(gens)

\* the first call returned a sentinel that holds a bracket number, the retry
\* returned a sentinel too, and the request was answered and logged
C14_Witness ==
    /\ PipelineEndpoint
    /\ pc = "done"
    /\ Len(gens) = 2
    /\ gens[1].exhausted
    /\ gens[2].exhausted
    /\ verifs[1].invalid = <<9>>
    /\ response.status_code = 200
    /\ Len(logFiles) = 1

\* the numbers written in a text: its maximal runs of digits, in text order
RunStarts(text) ==
    {i \in 1..Len(text) : text[i] \in Digits /\ (i = 1 \/ text[i - 1] \notin Digits)}

RunStop(text, i) ==
    CHOOSE e \in i..Len(text) :
        /\ \A k \in i..e : text[k] \in Digits
        /\ e = Len(text) \/ text[e + 1] \notin Digits

NumbersIn(text) ==
    LET starts == RunStarts(text)
        nth(k) == CHOOSE i \in starts : Cardinality({j \in starts : j < i}) = k - 1
    IN  [k \in 1..Cardinality(starts) |->
            DecimalSum(SubSeq(text, nth(k), RunStop(text, nth(k))), 1)]

\* C15: the retry prompt is a correction directive followed by the original
\* prompt, unmodified; the numbers the directive writes are exactly the
\* invalid citation numbers passed in, followed by the range bounds 1 and N.
C15_RetryPromptPrependsDirective ==
    LET original == UnitPrompt(vnum) IN
    /\ Len(vretry) = Len(original) + 1
    /\ SubSeq(vretry, 2, Len(vretry)) = original
    /\ vretry[1].kind = "correction"
    /\ NumbersIn(vretry[1].text) = vresult.invalid \o <<1, vnum>>

\* a retry prompt for two invalid numbers, N > 0
C15_Witness ==
    /\ vnum > 0
    /\ Len(vresult.invalid) = 2
    /\ vresult.invalid[1] < vresult.invalid[2]
    /\ NumbersIn(vretry[1].text) = vresult.invalid \o <<1, vnum>>

\* C16 as stated: the stored user_input has at most 1000 characters, the
\* stored prompt and llm_response at most 2000 each.
C16_StoredWithinCaps ==
    logOut # <<>> =>
        /\ Len(logOut[1].user_input) <= 1000
        /\ Len(logOut[1].prompt) <= 2000
        /\ Len(logOut[1].llm_response) <= 2000

\* C16 amended: the stored user_input has at most 1003 characters, the stored
\* prompt and llm_response at most 2003 each (the cap plus the three
\* characters of the "..." that marks a truncation).
C16_StoredWithinCapsPlusEllipsis ==
    logOut # <<>> =>
        /\ Len(logOut[1].user_input) <= 1003
        /\ Len(logOut[1].prompt) <= 2003
        /\ Len(logOut[1].llm_response) <= 2003

\* an entry whose three texts were all longer than cap + 3
C16_Witness ==
    /\ logOut # <<>>
    /\ Len(logIn.user_input) > 1003
    /\ Len(logIn.prompt) > 2003
    /\ Len(logIn.llm_response) > 2003
    /\ Len(logOut[1].user_input) = 1003
    /\ Len(logOut[1].prompt) = 2003
    /\ Len(logOut[1].llm_response) = 2003

\* C17: every audit log entry holds the retrieval count and a verification
\* result with its valid and invalid lists, computed from the logged text.
C17_EveryEntryHoldsVerification ==
    \A i \in 1..Len(logFiles) :
        /\ logFiles[i].retrieved_count = Len(retrieved)
        /\ logFiles[i].verification =
              <<verify_bracket_citations(answer, logFiles[i].retrieved_count)>>

\* C18: no audit record is overwritten: there are as many files as there were
\* write_log_file calls.
C18_OneFilePerWrite == Cardinality(disk) = nwrites

AllowedStep(from, to) ==
    \/ from \in {"idle", "done"} /\ to \in {"retrieve", "except"}
    \/ from = "retrieve" /\ to \in {"assemble", "except"}
    \/ from = "assemble" /\ to = "generate"
    \/ from = "generate" /\ to \in {"transport", "except"}
    \/ from = "transport" /\ to = "transport"
    \/ from = "verify" /\ to \in {"retry", "log"}
    \/ from = "retry" /\ to = "transport"
    \/ from = "reverify" /\ to = "log"
    \/ from = "log" /\ to = "done"
    \/ from = "except" /\ to = "done"

\* C19: a research or judgment request goes through retrieve, assemble,
\* generate, verify, (retry generate, retry verify), log in that order: the
\* first generate call returns into the first verification and the second into
\* the second, the log is written after the last verification, there is at
\* most one retrieval call and at most two generation calls, and no
\* generation call starts before the retrieval call has returned passages.
C19_StagesInOrder ==
    /\ [][PipelineEndpoint' =>
            \/ AllowedStep(pc, pc')
            \/ pc = "transport" /\ pc' = "verify" /\ Len(gens') = 1 /\ verifs' = <<>>
            \/ pc = "transport" /\ pc' = "reverify" /\ Len(gens') = 2 /\ Len(verifs') = 1
         ]_vars
    /\ [](PipelineEndpoint =>
            /\ retrCalls <= 1
            /\ Len(gens) <= 2
            /\ (call.active \/ gens # <<>>) => (retrCalls = 1 /\ retrieved # <<>>)
            /\ logFiles # <<>> => (Len(logFiles) = 1 /\ Len(verifs) = Len(gens)))

\* a request went through all seven stages
C19_Witness ==
    /\ PipelineEndpoint
    /\ pc = "done"
    /\ retrCalls = 1
    /\ Len(gens) = 2
    /\ Len(verifs) = 2
    /\ Len(logFiles) = 1

\* C20: when the API key or the endpoint is missing, no request makes an
\* external call: no retrieval call and no generation call.
C20_ConfigFaultNoExternalCall ==
    ~apiKeySet => (retrCalls = 0 /\ gens = <<>> /\ ~call.active)

(* ------------------------- what a text begins with --------------------- *)
\* the header of a hypothetical analysis, with the source's dash written as "-"
HypotheticalHeader ==
    <<"H", "Y", "P", "O", "T", "H", "E", "T", "I", "C", "A", "L", " ", "A", "N", "A", "L", "Y", "S", "I", "S", " ", "-", " ", "N", "O", "T", " ", "L", "E", "G", "A", "L", " ", "A", "D", "V", "I", "C", "E">>

StartsWith(text, prefix) ==
    /\ Len(text) >= Len(prefix)
    /\ SubSeq(text, 1, Len(prefix)) = prefix

\* C21: the text returned for a completed judgment request of sub-mode
\* hypothetical begins with "HYPOTHETICAL ANALYSIS - NOT LEGAL ADVICE".
C21_HypotheticalAnswerBeginsWithHeader ==
    (response.status_code = 200 /\ req.endpoint = "judgment" /\ req.mode = "hypothetical") =>
        StartsWith(response.answer, HypotheticalHeader)

(* ------------------------- what a prompt embeds ------------------------ *)
SegsOfKind(p, kind) == {i \in 1..Len(p) : p[i].kind = kind}
HasPassages(p) == SegsOfKind(p, "passage") # {}
HasCaseText(p) == SegsOfKind(p, "case_text") # {}

\* the prompt embeds the raw text block, once, and no passage
EmbedsOnlyCaseText(p, text) ==
    /\ ~HasPassages(p)
    /\ Cardinality(SegsOfKind(p, "case_text")) = 1
    /\ \A i \in SegsOfKind(p, "case_text") : p[i].text = text

RawTextRequest ==
    req.endpoint = "summarize" /\ TruthyStr(req.case_text) /\ ~TruthyStr(req.text)

\* C22: a summarize request with a case text and no query makes no retrieval
\* call, every prompt it sends embeds the case text and no passage, its
\* retrieved sequence stays empty and its log entry has retrieved_count 0.
C22_RawTextSummarizeSkipsRetrieval ==
    RawTextRequest =>
        /\ retrCalls = 0
        /\ retrieved = <<>>
        /\ pc # "retrieve"
        /\ call.active => EmbedsOnlyCaseText(call.prompt, req.case_text[1])
        /\ \A i \in 1..Len(gens) : EmbedsOnlyCaseText(gens[i].prompt, req.case_text[1])
        /\ \A i \in 1..Len(logFiles) :
              logFiles[i].retrieved_count = 0 /\ logFiles[i].retrieved_metadata = <<>>

\* a raw-text summarize request was generated for, logged and answered
C22_Witness ==
    /\ RawTextRequest
    /\ response.status_code = 200
    /\ Len(gens) = 1
    /\ Len(logFiles) = 1

\* C23: a summarize prompt embeds the retrieved passages or the case text,
\* never both and never neither; with a query and a case text no retrieval
\* call is made and the prompt embeds the case text.
C23_PassagesOrCaseTextNeverBoth ==
    req.endpoint = "summarize" =>
        /\ prompt # <<>> => (HasPassages(prompt) # HasCaseText(prompt))
        /\ (TruthyStr(req.text) /\ TruthyStr(req.case_text)) =>
              /\ retrCalls = 0
              /\ prompt # <<>> => EmbedsOnlyCaseText(prompt, req.case_text[1])
        /\ (prompt # <<>> /\ ~TruthyStr(req.case_text)) =>
              /\ retrCalls = 1
              /\ HasPassages(prompt)

\* a summarize request with a query and a case text was answered
C23_Witness ==
    /\ req.endpoint = "summarize"
    /\ TruthyStr(req.text)
    /\ TruthyStr(req.case_text)
    /\ HasCaseText(prompt)
    /\ response.status_code = 200

\* C24: the passages of a prompt are the retrieved passages in input order,
\* the passage at position k numbered k; the range a research or judgment
\* prompt states ends at N = len(retrieved), and every verification of the
\* request classifies against that N.
C24_NumberIsPosition ==
    prompt # <<>> =>
        /\ (req.endpoint = "summarize" /\ TruthyStr(req.case_text))
              \/ Cardinality(SegsOfKind(prompt, "passage")) = Len(retrieved)
        /\ \A i \in SegsOfKind(prompt, "passage") :
              /\ prompt[i].num \in 1..Len(retrieved)
              /\ prompt[i].text = <<retrieved[prompt[i].num]>>
              /\ \A j \in SegsOfKind(prompt, "passage") :
                    i < j => prompt[i].num < prompt[j].num
        /\ PipelineEndpoint =>
              /\ Cardinality(SegsOfKind(prompt, "range_1_through")) = 1
              /\ \A i \in SegsOfKind(prompt, "range_1_through") :
                    /\ prompt[i].num = Len(retrieved)
                    /\ \A v \in 1..Len(verifs) :
                          /\ \A c \in Range(verifs[v].valid) : c \in 1..prompt[i].num
                          /\ \A c \in Range(verifs[v].invalid) : c \notin 1..prompt[i].num

\* a prompt over two passages retrieved in the order 2, 1 and a verification
\* that found the citation [2] valid
C24_Witness ==
    /\ PipelineEndpoint
    /\ retrieved = <<2, 1>>
    /\ prompt # <<>>
    /\ verifs # <<>>
    /\ 2 \in Range(verifs[1].valid)

\* C25: a successful response to a request whose prompt embedded retrieved
\* passages carries the verification of the returned answer against the
\* number of retrieved passages.
C25_ResponseCarriesVerification ==
    (response.status_code = 200 /\ HasPassages(prompt)) =>
        response.verification = <<verify_bracket_citations(response.answer, Len(retrieved))>>

DefaultTemperatureOf(endpoint) ==
    CASE endpoint = "research" -> 0
      [] endpoint = "judgment" -> 1
      [] endpoint = "summarize" -> 0

\* C27: without an override the generation calls of a request use 0.0
\* (research, summarize) or 0.1 (judgment); with an override, 0.0 included,
\* every generation call uses the override.
C27_TemperatureDefaultOrOverride ==
    LET expected == IF req.temperature = None THEN DefaultTemperatureOf(req.endpoint)
                    ELSE req.temperature[1]
    IN  /\ call.active => call.temperature = expected
        /\ \A i \in 1..Len(gens) : gens[i].temperature = expected

\* a judgment request with the override 0.0 made two generation calls
C27_Witness ==
    /\ req.endpoint = "judgment"
    /\ req.temperature = Some(0)
    /\ Len(gens) = 2
    /\ gens[1].temperature = 0
    /\ gens[2].temperature = 0

\* C26: the where clause of the store query holds exactly the supplied
\* entries whose value is not None, and there is no where clause when no
\* filters are supplied.
C26_NoneFiltersRemoved ==
    LET supplied == filtIn.filters # None /\ filtIn.filters[1] # {} IN
        /\ ~supplied => filtOut.where = None
        /\ supplied =>
              /\ filtOut.where # None
              /\ \A e \in [k : FilterKeys, v : FilterValues] :
                    e \in filtOut.where[1] <=> (e \in filtIn.filters[1] /\ e.v # None)

\* filters with a None value and another value: the query keeps only the other
C26_Witness ==
    /\ filtIn.filters = Some({[k |-> "court", v |-> None], [k |-> "year", v |-> Some("a")]})
    /\ filtOut.where = Some({[k |-> "year", v |-> Some("a")]})

\* the waits of a call that made n attempts: 1 s after the first, 2 s after
\* the second, none after the last
BackoffOf(n) == CASE n = 1 -> <<>> [] n = 2 -> <<1>> [] n = 3 -> <<1, 2>>

\* C30 as stated: the waits double, none follows the last attempt, and the
\* call returns at the first attempt answered with status 200.
C30_BackoffAndReturnAtFirst200 ==
    /\ \A i \in 1..Len(gens) : gens[i].sleeps = BackoffOf(gens[i].attempts)
    /\ \A j \in 1..Len(posts) : posts[j].code = 200 => (j = Len(posts) /\ ~call.active)

\* C30: the waits double (1 s after the first failed attempt, 2 s after the
\* second), none follows the last attempt, and the call returns at the first
\* attempt answered with status 200 and a body that parses, making no
\* further attempt; an attempt answered with status 200 and a body that does
\* not parse counts as failed.
C30_BackoffAndReturnAtFirstParsed200 ==
    /\ call.active =>
          /\ Len(posts) = call.attempt
          /\ call.sleeps = BackoffOf(call.attempt + 1)
    /\ \A j \in 1..Len(posts) :
          posts[j].kind = "ok" => (j = Len(posts) /\ ~call.active)
    /\ \A i \in 1..Len(gens) :
          /\ Len(posts) = gens[i].attempts
          /\ gens[i].sleeps = BackoffOf(gens[i].attempts)
          /\ posts[Len(posts)].kind # "ok" => gens[i].attempts = RETRY_COUNT

\* a call returned at its third attempt, answered with status 200, after an
\* attempt answered with status 500 and one whose 200 body did not parse
C30_Witness ==
    /\ Len(gens) = 1
    /\ Len(posts) = 3
    /\ gens[1].sleeps = <<1, 2>>
    /\ posts[1].kind = "status"
    /\ posts[2].kind = "json_error"
    /\ posts[3].kind = "ok"

\* C28: the console judgment handler, when the first verification of its
\* text has a non-empty invalid list, generates and verifies once more before
\* it logs.
C28_CliJudgmentRetries ==
    (/\ req.endpoint = "cli_judgment"
     /\ logFiles # <<>>
     /\ verifs[1].invalid # <<>>) =>
        /\ Len(gens) = 2
        /\ Len(verifs) = 2

\* C29: the console summarize handler in query mode, when retrieval returned
\* no passage, makes no generation call and writes no log entry.
C29_CliSummarizeNoGroundingStops ==
    (/\ req.endpoint = "cli_summarize"
     /\ req.case_text = None
     /\ retrCalls = 1
     /\ retrieved = <<>>) =>
        /\ ~call.active
        /\ gens = <<>>
        /\ logFiles = <<>>

\* C31: a research or judgment request answered with status 200 has written
\* exactly one audit entry, after its last verification; a request that ended
\* in an error has written none.
C31_OneEntryAfterFinalVerification ==
    PipelineEndpoint =>
        /\ Len(logFiles) <= 1
        /\ response.status_code = 200 =>
              /\ Len(logFiles) = 1
              /\ verifs # <<>>
              /\ Len(verifs) = Len(gens)
              /\ logFiles[1].verification = <<verifs[Len(verifs)]>>
        /\ (pc = "except" \/ response.status_code \notin {0, 200}) => logFiles = <<>>
        /\ logFiles # <<>> => pc = "done"

\* a request was answered after one generation, and its entry written
C31_Witness ==
    /\ PipelineEndpoint
    /\ response.status_code = 200
    /\ Len(gens) = 1
    /\ Len(verifs) = 1
    /\ Len(logFiles) = 1

\* the first max_len characters of a text, then "...", when it is longer
Shortened(stored, text, max_len) ==
    IF Len(text) <= max_len THEN stored = text
    ELSE /\ Len(stored) = max_len + 3
         /\ \A i \in 1..max_len : stored[i] = text[i]
         /\ \A i \in (max_len + 1)..(max_len + 3) : stored[i] = "."

\* C32: the audit entry and the response of a research or judgment request
\* agree: same verification, the logged llm_response is the returned answer
\* (shortened), the logged retrieved_count is the number of passages in the
\* response; after a retry all three are those of the second text.
C32_EntryAgreesWithResponse ==
    (PipelineEndpoint /\ response.status_code = 200) =>
        LET entry == logFiles[1]
            final == gens[Len(gens)].text
        IN  /\ entry.verification = response.verification
            /\ Shortened(entry.llm_response, response.answer, RESPONSE_CAP)
            /\ entry.retrieved_count = Len(response.retrieved)
            /\ entry.full_response_length = Len(response.answer)
            /\ response.answer = final
            /\ entry.verification = <<verify_bracket_citations(final, entry.retrieved_count)>>

\* after a retry whose second text verifies differently from the first
C32_Witness ==
    /\ PipelineEndpoint
    /\ response.status_code = 200
    /\ Len(gens) = 2
    /\ gens[1].text # gens[2].text
    /\ logFiles[1].verification = <<verifs[2]>>
    /\ verifs[1] # verifs[2]
    /\ logFiles[1].llm_response = gens[2].text

C34_RetryKeepsGrounding ==
    /\ [][(PipelineEndpoint /\ (gens # <<>> \/ call.active) /\ pc # "done") =>
             (retrieved' = retrieved /\ retrCalls' = retrCalls)]_vars
    /\ []((PipelineEndpoint /\ Len(gens) = 2) =>
             /\ retrCalls = 1
             /\ gens[2].temperature = gens[1].temperature
             /\ Tail(gens[2].prompt) = gens[1].prompt
             /\ gens[2].prompt[1].kind = "correction"
             /\ NumbersIn(gens[2].prompt[1].text) = verifs[1].invalid \o <<1, Len(retrieved)>>)

\* a retry over two passages with the override temperature 0.5
C34_Witness ==
    /\ PipelineEndpoint
    /\ Len(gens) = 2
    /\ Len(verifs) = 2
    /\ Len(retrieved) = 2
    /\ gens[2].temperature = 5

\* the transport attempts of the request so far
RECURSIVE AttemptsOf(_)
AttemptsOf(calls) ==
    IF calls = <<>> THEN 0 ELSE Head(calls).attempts + AttemptsOf(Tail(calls))

TransportAttempts == AttemptsOf(gens) + call.attempt

\* C35: a request makes at most 1 retrieval call and 2 generate calls of at
\* most 3 transport attempts each, at most 6 attempts in all, and every
\* request received is answered, with a response or with an error status.
C35_RequestTerminates ==
    /\ [](/\ retrCalls <= 1
          /\ Len(gens) + (IF call.active THEN 1 ELSE 0) <= 2
          /\ \A i \in 1..Len(gens) : gens[i].attempts <= 3
          /\ call.attempt <= 2
          /\ TransportAttempts <= 6)
    /\ (pc \notin {"idle", "done"}) ~> (pc = "done" /\ response.status_code # 0)

\* a request was answered after six failed transport attempts
C35_Witness ==
    /\ pc = "done"
    /\ response.status_code = 200
    /\ Len(gens) = 2
    /\ TransportAttempts = 6

\* C36: every retrieval call of a handler asks for at least one neighbour,
\* whatever the top_k override of the request.
C36_RetrievalAsksAtLeastOne == retrCalls > 0 => top_k >= 1

\* C37: while a request waits in a retrieval call, in a transport attempt or
\* in a backoff sleep, another request can be accepted.
C37_WaitingDoesNotBlockOthers ==
    (pc \in {"retrieve", "transport"} /\ nreq < MaxRequests) =>
        ENABLED (\E k \in TopKInputs, t \in TemperatureInputs : Research(<<"q">>, k, t))

\* C38: create_log_entry stores a field no longer than its cap unchanged and a
\* longer one as its first cap characters followed by "...", and
\* full_response_length is the length of the response before that.
C38_TruncateKeepsOrCuts ==
    logOut # <<>> =>
        /\ Shortened(logOut[1].user_input, logIn.user_input, USER_INPUT_CAP)
        /\ Shortened(logOut[1].prompt, logIn.prompt, PROMPT_CAP)
        /\ Shortened(logOut[1].llm_response, logIn.llm_response, RESPONSE_CAP)
        /\ logOut[1].full_response_length = Len(logIn.llm_response)

\* an entry of a user_input one over its cap, a prompt of exactly its cap and
\* a response one over its cap
C38_Witness ==
    /\ logOut # <<>>
    /\ Len(logIn.user_input) = USER_INPUT_CAP + 1
    /\ Len(logIn.prompt) = PROMPT_CAP
    /\ Len(logIn.llm_response) = RESPONSE_CAP + 1
    /\ logOut[1].prompt = logIn.prompt
    /\ logOut[1].full_response_length = RESPONSE_CAP + 1

OverlapBelowSize == 0 <= coverlap /\ coverlap < csize

\* C39: with 0 <= chunk_overlap < chunk_size the function returns; its chunks
\* are numbered 0, 1, 2, ..., the chunk numbered k starts at offset
\* k * (chunk_size - chunk_overlap) and holds the characters from there, up
\* to chunk_size of them, and the chunks returned hold every character of
\* the text. With chunk_overlap >= chunk_size and a non-empty text the loop
\* condition holds forever and the function never returns.
C39_ChunkingTerminatesAndCovers ==
    /\ [](OverlapBelowSize =>
            \A i \in 1..Len(cchunks) :
                /\ cchunks[i].chunk_index = i - 1
                /\ cchunks[i].start_char = (i - 1) * (csize - coverlap)
                /\ cchunks[i].end_char = cchunks[i].start_char + csize
                /\ Len(cchunks[i].text) = Min(csize, Len(ctext) - cchunks[i].start_char)
                /\ \A j \in 1..Len(cchunks[i].text) :
                      cchunks[i].text[j] = ctext[cchunks[i].start_char + j])
    /\ []((OverlapBelowSize /\ cpc = "returned") =>
            \A p \in 1..Len(ctext) :
                \E i \in 1..Len(cchunks) :
                    /\ cchunks[i].start_char < p
                    /\ p <= cchunks[i].end_char
                    /\ cchunks[i].text[p - cchunks[i].start_char] = ctext[p])
    /\ [](OverlapBelowSize => <>(cpc = "returned"))
    /\ []((coverlap >= csize /\ ctext # <<>>) => (cpc = "loop" /\ cstart < Len(ctext)))

\* four characters chunked by two with overlap one: chunks at 0, 1, 2 and 3
C39_Witness ==
    /\ cpc = "returned"
    /\ Len(ctext) = 4
    /\ csize = 2
    /\ coverlap = 1
    /\ Len(cchunks) = 4
    /\ cchunks[4].text = <<4>>

====
